---- MODULE Spec2Model ----
(***************************************************************************)
(* A model of the wmctrl binding: the Window type of src/window.rs and the *)
(* subprocess invoker and free functions of src/lib.rs.                    *)
(*                                                                         *)
(* A string is a sequence of chunks.  A chunk is a piece of text without   *)
(* blanks and without shell metacharacters, or the one-character chunk     *)
(* " " or ";".  format!() is concatenation (\o).                           *)
(***************************************************************************)
EXTENDS Integers, Sequences, FiniteSets, TLC

VARIABLES win, moved, real, pc, op, cmds, ret

vars == <<win, moved, real, pc, op, cmds, ret>>

(***************************************************************************)
(* Bounds and input sets                                                   *)
(***************************************************************************)
MaxDesk == 1

MaxCoord == 1

WinIds == {<<"0x01">>, <<"0x02">>}

Desktops == {<<ToString(d)>> : d \in 0..MaxDesk}

\* Titles a caller may pass: plain ones, one with a blank, one with a
\* shell metacharacter between two words, and one that sh cannot parse.
Titles == {<<"a">>, <<"b">>, <<"a", " ", "b">>, <<"a", ";", "b">>, <<";", ";">>}

Transformations == [x : 0..MaxCoord, y : {0}, width : {960}, height : {540}]

States == [action : {"add", "remove", "toggle"}, property : {"fullscreen"}]

NoTr == [x |-> 0, y |-> 0, width |-> 0, height |-> 0]

NoSt == [action |-> "none", property |-> "none"]

NoOutput == [status |-> -1, stdout |-> <<>>]

NoValue == [kind |-> "none", status |-> -1, stdout |-> <<>>]

Unit == [kind |-> "unit", status |-> -1, stdout |-> <<>>]

FreeOps == {"list_windows", "show_information_about_wm"}

(***************************************************************************)
(* Display of the argument types (src/transformation.rs and src/state.rs   *)
(* are not part of the sources at hand).                                   *)
(***************************************************************************)
fmtTransformation(t) ==
    <<ToString(t.x), ",", ToString(t.y), ",", ToString(t.width), ",", ToString(t.height)>>

fmtState(s) == <<s.action, ",", s.property>>

(***************************************************************************)
(* lib.rs: wmctrl() runs  sh -c "wmctrl <args>"                            *)
(***************************************************************************)
sh_line(args) == <<"wmctrl", " ">> \o args

RECURSIVE Split(_, _)
Split(s, sep) ==
    IF \A i \in 1..Len(s) : s[i] # sep
    THEN <<s>>
    ELSE LET i == CHOOSE j \in 1..Len(s) :
                     /\ s[j] = sep
                     /\ \A k \in 1..(j - 1) : s[k] # sep
         IN  <<SubSeq(s, 1, i - 1)>> \o Split(SubSeq(s, i + 1, Len(s)), sep)

NonEmpty(w) == w # <<>>

Words(seg) == SelectSeq(Split(seg, " "), NonEmpty)

\* What sh makes of the command line: a list of simple commands, each a
\* list of words; an empty command before a ";" is a syntax error and
\* then nothing is run.
sh_parse(line) ==
    LET segs  == Split(line, ";")
        lists == [i \in 1..Len(segs) |-> Words(segs[i])]
        error == \E i \in 1..(Len(segs) - 1) : lists[i] = <<>>
    IN  [error |-> error,
         commands |-> IF error THEN <<>> ELSE SelectSeq(lists, NonEmpty)]

\* The exit statuses sh can report for a parsed line.
ExitStatuses(parsed) ==
    IF parsed.error THEN {2}
    ELSE IF parsed.commands[Len(parsed.commands)][1] # <<"wmctrl">> THEN {127}
    ELSE {0, 1}

(***************************************************************************)
(* The external tool, as the doc comments of window.rs describe it.        *)
(***************************************************************************)
ToolEffect(argv, id, r) ==
    LET n == Len(argv) IN
    IF argv[1] # <<"wmctrl">> THEN r
    ELSE IF n >= 6 /\ argv[2] = <<"-r">> /\ argv[3] = id /\ argv[4] = <<"-i">>
    THEN CASE argv[5] \in {<<"-N">>, <<"-T">>} -> [r EXCEPT !.title = argv[6]]
           [] argv[5] = <<"-e">> -> [r EXCEPT !.transformation = argv[6]]
           [] argv[5] = <<"-t">> -> [r EXCEPT !.desktop = argv[6]]
           [] OTHER -> r
    ELSE IF n >= 4 /\ argv[2] = <<"-R">> /\ argv[3] = id /\ argv[4] = <<"-i">>
    THEN [r EXCEPT !.desktop = r.current]
    ELSE IF n >= 4 /\ argv[2] = <<"-a">> /\ argv[3] = id /\ argv[4] = <<"-i">>
    THEN [r EXCEPT !.current = r.desktop]
    ELSE r

ToolStdout(argv, r) ==
    IF Len(argv) < 2 \/ argv[1] # <<"wmctrl">> THEN <<>>
    ELSE CASE argv[2] = <<"-l">> -> <<"listing">>
           [] argv[2] = <<"-m">> -> <<"wminfo">>
           [] argv[2] = <<"-d">> -> r.current
           [] OTHER -> <<>>

\* The output and the effect of one run of sh: the tool may fail silently.
Runs(line, id, r) ==
    LET parsed == sh_parse(line) IN
    IF parsed.error
    THEN {[output |-> [status |-> 2, stdout |-> <<>>], real |-> r]}
    ELSE LET argv == parsed.commands[1] IN
         {[output |-> [status |-> s, stdout |-> ToolStdout(argv, r)],
           real |-> IF applied THEN ToolEffect(argv, id, r) ELSE r] :
             s \in ExitStatuses(parsed), applied \in BOOLEAN}

(***************************************************************************)
(* lib.rs: fn wmctrl(args) -- spawn, or panic                              *)
(***************************************************************************)
\* Variant: spawn() without waiting for the child.
wmctrl_nowait(args, issued) ==
    \E started \in BOOLEAN :
        /\ cmds' = Append(issued,
                          [line |-> sh_line(args),
                           state |-> IF started THEN "running" ELSE "failed",
                           output |-> NoOutput])
        /\ pc' = IF started THEN "idle" ELSE "panicked"
        /\ ret' = IF started THEN Unit ELSE NoValue

\* Variant: unwrap_or_default() in place of expect().
wmctrl_unwrap_or(args, issued) ==
    \E started \in BOOLEAN :
        /\ cmds' = Append(issued,
                          [line |-> sh_line(args),
                           state |-> IF started THEN "running" ELSE "failed",
                           output |-> NoOutput])
        /\ pc' = IF started THEN "waiting" ELSE "idle"
        /\ ret' = IF started THEN NoValue ELSE Unit

wmctrl(args, issued) ==
    \E started \in BOOLEAN :
        /\ cmds' = Append(issued,
                          [line |-> sh_line(args),
                           state |-> IF started THEN "running" ELSE "failed",
                           output |-> NoOutput])
        /\ pc' = IF started THEN "waiting" ELSE "panicked"
        /\ ret' = NoValue

(***************************************************************************)
(* window.rs                                                               *)
(***************************************************************************)
\* Variant: the window is named by its title.
get_by_title(self) == self.title \o <<" ", "-i">>

get(self) == self.id \o <<" ", "-i">>

Call(name, str, tr, st) == [name |-> name, str |-> str, tr |-> tr, st |-> st]

Init ==
    /\ \E id \in WinIds :
          win = [id |-> id, desktop |-> <<"0">>, title |-> <<"a">>,
                 transformation |-> [x |-> 0, y |-> 0, width |-> 960, height |-> 540]]
    /\ moved = FALSE
    /\ \E c \in Desktops :
          real = [title |-> <<"a">>, desktop |-> <<"0">>,
                  transformation |-> <<"0", ",", "0", ",", "960", ",", "540">>,
                  current |-> c]
    /\ pc = "idle"
    /\ op = Call("none", <<>>, NoTr, NoSt)
    /\ cmds = <<>>
    /\ ret = NoValue

\* Variant: the command is issued but the field is left alone.
set_title_noassign(title) ==
    /\ pc = "idle" /\ ~moved
    /\ op' = Call("set_title", title, NoTr, NoSt)
    /\ wmctrl(<<"-r", " ">> \o get(win) \o <<" ", "-N", " ">> \o title, <<>>)
    /\ UNCHANGED <<win, moved, real>>

set_title(title) ==
    /\ pc = "idle" /\ ~moved
    /\ win' = [win EXCEPT !.title = title]
    /\ op' = Call("set_title", title, NoTr, NoSt)
    /\ wmctrl(<<"-r", " ">> \o get(win') \o <<" ", "-N", " ">> \o title, <<>>)
    /\ UNCHANGED <<moved, real>>

set_icon_title(title) ==
    /\ pc = "idle" /\ ~moved
    /\ op' = Call("set_icon_title", title, NoTr, NoSt)
    /\ wmctrl(<<"-r", " ">> \o get(win) \o <<" ", "-I", " ">> \o title, <<>>)
    /\ UNCHANGED <<win, moved, real>>

set_both_title(title) ==
    /\ pc = "idle" /\ ~moved
    /\ win' = [win EXCEPT !.title = title]
    /\ op' = Call("set_both_title", title, NoTr, NoSt)
    /\ wmctrl(<<"-r", " ">> \o get(win') \o <<" ", "-T", " ">> \o title, <<>>)
    /\ UNCHANGED <<moved, real>>

change_state(state) ==
    /\ pc = "idle" /\ ~moved
    /\ op' = Call("change_state", <<>>, NoTr, state)
    /\ wmctrl(<<"-r", " ">> \o get(win) \o <<" ", "-b", " ">> \o fmtState(state), <<>>)
    /\ UNCHANGED <<win, moved, real>>

transform(transformation) ==
    /\ pc = "idle" /\ ~moved
    /\ win' = [win EXCEPT !.transformation = transformation]
    /\ op' = Call("transform", <<>>, transformation, NoSt)
    /\ wmctrl(<<"-r", " ">> \o get(win') \o <<" ", "-e", " ">>
                 \o fmtTransformation(win'.transformation), <<>>)
    /\ UNCHANGED <<moved, real>>

set_desktop(desktop) ==
    /\ pc = "idle" /\ ~moved
    /\ win' = [win EXCEPT !.desktop = desktop]
    /\ op' = Call("set_desktop", desktop, NoTr, NoSt)
    /\ wmctrl(<<"-r", " ">> \o get(win') \o <<" ", "-t", " ">> \o desktop, <<>>)
    /\ UNCHANGED <<moved, real>>

\* activate() first calls get_current_desktop(), which asks the tool.
activate ==
    /\ pc = "idle" /\ ~moved
    /\ op' = Call("activate", <<>>, NoTr, NoSt)
    /\ wmctrl(<<"-d">>, <<>>)
    /\ UNCHANGED <<win, moved, real>>

raise ==
    /\ pc = "idle" /\ ~moved
    /\ op' = Call("raise", <<>>, NoTr, NoSt)
    /\ wmctrl(<<"-a", " ">> \o get(win), <<>>)
    /\ UNCHANGED <<win, moved, real>>

\* Variant: close(&self) does not consume the value.
close_by_ref ==
    /\ pc = "idle" /\ ~moved
    /\ op' = Call("close", <<>>, NoTr, NoSt)
    /\ wmctrl(<<"-c", " ">> \o get(win), <<>>)
    /\ UNCHANGED <<win, moved, real>>

close ==
    /\ pc = "idle" /\ ~moved
    /\ moved' = TRUE
    /\ op' = Call("close", <<>>, NoTr, NoSt)
    /\ wmctrl(<<"-c", " ">> \o get(win), <<>>)
    /\ UNCHANGED <<win, real>>

(***************************************************************************)
(* lib.rs: the free functions                                              *)
(***************************************************************************)
list_windows ==
    /\ pc = "idle"
    /\ op' = Call("list_windows", <<>>, NoTr, NoSt)
    /\ wmctrl(<<"-l">>, <<>>)
    /\ UNCHANGED <<win, moved, real>>

show_information_about_wm ==
    /\ pc = "idle"
    /\ op' = Call("show_information_about_wm", <<>>, NoTr, NoSt)
    /\ wmctrl(<<"-m">>, <<>>)
    /\ UNCHANGED <<win, moved, real>>

(***************************************************************************)
(* The subprocess exits: Command::output() returns and so does the caller. *)
(***************************************************************************)
Exited(c, out) == [c EXCEPT !.state = "exited", !.output = out]

\* Variant: only the standard output is handed back.
wmctrl_result_stdout(out) == [kind |-> "output", status |-> 0, stdout |-> out.stdout]

\* What wmctrl() hands back to its caller.
wmctrl_result(out) == [kind |-> "output", status |-> out.status, stdout |-> out.stdout]

\* Variant: the title is read back from the window after the command.
after_wmctrl_refresh(self, r) == [self EXCEPT !.title = r.title]

\* What a Window method does with the value wmctrl() returned: nothing.
after_wmctrl(self, r) == self

\* get_current_desktop(): the desktop the tool reports as the current one.
get_current_desktop(out) == out.stdout

wmctrl_returns ==
    /\ pc = "waiting"
    /\ ~(op.name = "activate" /\ Len(cmds) = 1)
    /\ \E run \in Runs(cmds[Len(cmds)].line, win.id, real) :
          /\ real' = run.real
          /\ cmds' = [cmds EXCEPT ![Len(cmds)] = Exited(@, run.output)]
          /\ win' = after_wmctrl(win, real')
          /\ ret' = IF op.name \in FreeOps THEN wmctrl_result(run.output) ELSE Unit
    /\ pc' = "idle"
    /\ UNCHANGED <<op, moved>>

activate_continue ==
    /\ pc = "waiting"
    /\ op.name = "activate" /\ Len(cmds) = 1
    /\ \E run \in Runs(cmds[1].line, win.id, real) :
          /\ real' = run.real
          /\ win' = [win EXCEPT !.desktop = get_current_desktop(run.output)]
          /\ wmctrl(<<"-R", " ">> \o get(win'), <<Exited(cmds[1], run.output)>>)
    /\ UNCHANGED <<op, moved>>

Next ==
    \/ \E title \in Titles : set_title(title)
    \/ \E title \in Titles : set_icon_title(title)
    \/ \E title \in Titles : set_both_title(title)
    \/ \E state \in States : change_state(state)
    \/ \E transformation \in Transformations : transform(transformation)
    \/ \E desktop \in Desktops : set_desktop(desktop)
    \/ activate
    \/ raise
    \/ close
    \/ list_windows
    \/ show_information_about_wm
    \/ wmctrl_returns
    \/ activate_continue

Spec == Init /\ [][Next]_vars

(***************************************************************************)
(* Properties                                                              *)
(***************************************************************************)
Returned == pc = "idle" /\ op.name # "none"

AllExited == \A i \in 1..Len(cmds) : cmds[i].state = "exited"

\* The command line of an action on the window: -r <id> -i <flag> <arg>.
OnWindow(flag, arg) ==
    <<"wmctrl", " ", "-r", " ">> \o win.id \o <<" ", "-i", " ", flag, " ">> \o arg

\* The command line of an action that takes the window alone: <flag> <id> -i.
OfWindow(flag) == <<"wmctrl", " ", flag, " ">> \o win.id \o <<" ", "-i">>

\* C1: every mutation method leaves the requested value in the local field
\* and issues its command in the same call: the title after set_title and
\* set_both_title, the transformation after transform, the desktop after
\* set_desktop, the current desktop the tool reported after activate; the
\* command has run to its end when the method returns, whatever its outcome.
C1_MutationSetsFieldAndIssues ==
    /\ op.name \in {"set_title", "set_both_title"} =>
          /\ win.title = op.str
          /\ Len(cmds) = 1
          /\ cmds[1].line = OnWindow(IF op.name = "set_title" THEN "-N" ELSE "-T", op.str)
    /\ op.name = "transform" =>
          /\ win.transformation = op.tr
          /\ Len(cmds) = 1
          /\ cmds[1].line = OnWindow("-e", fmtTransformation(op.tr))
    /\ op.name = "set_desktop" =>
          /\ win.desktop = op.str
          /\ Len(cmds) = 1
          /\ cmds[1].line = OnWindow("-t", op.str)
    /\ (op.name = "activate" /\ Len(cmds) = 2) =>
          /\ win.desktop = cmds[1].output.stdout
          /\ cmds[2].line = OfWindow("-R")
    /\ (Returned /\ op.name \in {"set_title", "set_both_title", "transform",
                                 "set_desktop", "activate"}) =>
          /\ AllExited
          /\ op.name = "activate" => Len(cmds) = 2

\* C1 witness: set_title has returned after a command that failed and
\* changed nothing; the local title is the requested one all the same.
C1_Witness ==
    /\ Returned /\ op.name = "set_title"
    /\ cmds[1].output.status = 1
    /\ win.title = op.str
    /\ real.title # op.str

\* C2: the command line of every Window operation carries the documented
\* flag and names the window by the id of the Window it was called on.
C2_DocumentedFlags ==
    Len(cmds) >= 1 =>
       /\ op.name = "set_title" => cmds[1].line = OnWindow("-N", op.str)
       /\ op.name = "set_icon_title" => cmds[1].line = OnWindow("-I", op.str)
       /\ op.name = "set_both_title" => cmds[1].line = OnWindow("-T", op.str)
       /\ op.name = "change_state" => cmds[1].line = OnWindow("-b", fmtState(op.st))
       /\ op.name = "transform" => cmds[1].line = OnWindow("-e", fmtTransformation(op.tr))
       /\ op.name = "set_desktop" => cmds[1].line = OnWindow("-t", op.str)
       /\ (op.name = "activate" /\ Len(cmds) = 2) => cmds[2].line = OfWindow("-R")
       /\ op.name = "raise" => cmds[1].line = OfWindow("-a")
       /\ op.name = "close" => cmds[1].line = OfWindow("-c")

\* C2 witness: a window whose title was changed is closed; the command
\* names it by its id.
C2_Witness ==
    /\ Returned /\ op.name = "close"
    /\ win.title # <<"a">>
    /\ win.id = <<"0x02">>
    /\ cmds[1].line = <<"wmctrl", " ", "-c", " ", "0x02", " ", "-i">>

\* C3: for every title, once the subprocess of set_title, set_icon_title or
\* set_both_title has run, the tool was run once with the whole title as the
\* single <STR> argument after the flag, and sh ran no other command.
C3_TitleIsOneArgument ==
    (/\ op.name \in {"set_title", "set_icon_title", "set_both_title"}
     /\ Returned) =>
        sh_parse(cmds[1].line) =
            [error |-> FALSE,
             commands |-> << << <<"wmctrl">>, <<"-r">>, win.id, <<"-i">>,
                                <<CASE op.name = "set_title" -> "-N"
                                    [] op.name = "set_icon_title" -> "-I"
                                    [] OTHER -> "-T">>,
                                op.str >> >>]

C5_SpawnFailureIsTheOnlyFailure ==
    /\ pc = "panicked" <=> (cmds # <<>> /\ cmds[Len(cmds)].state = "failed")
    /\ \A i \in 1..Len(cmds) : cmds[i].state = "failed" => i = Len(cmds)
    /\ pc = "panicked" => ret = NoValue
    /\ Returned =>
          /\ AllExited
          /\ ret.kind # "none"
          /\ op.name \in FreeOps =>
                /\ ret.status = cmds[1].output.status
                /\ ret.stdout = cmds[1].output.stdout

\* C5 witness: sh was started, could not parse its command line and exited
\* with status 2; the operation returned normally.
C5_Witness ==
    /\ Returned /\ op.name = "set_icon_title"
    /\ cmds[1].output.status = 2
    /\ ret = Unit

Differs ==
    [title |-> win.title # real.title,
     desktop |-> win.desktop # real.desktop,
     transformation |-> fmtTransformation(win.transformation) # real.transformation]

\* C6: the local fields may differ from the real window, and no operation
\* detects or repairs that: a local field only ever changes to the value a
\* mutation of that field asks for (for activate, the reported current
\* desktop), never to what the real window holds; operations that are not a
\* mutation of the field leave a difference as it is; a Window method
\* returns nothing.
C6_NoDetectionNoRepair ==
    /\ [][/\ win'.title # win.title =>
                (op'.name \in {"set_title", "set_both_title"} /\ win'.title = op'.str)
          /\ win'.transformation # win.transformation =>
                (op'.name = "transform" /\ win'.transformation = op'.tr)
          /\ win'.desktop # win.desktop =>
                \/ op'.name = "set_desktop" /\ win'.desktop = op'.str
                \/ op'.name = "activate" /\ win'.desktop = real.current
          /\ (Differs.title /\ op'.name \notin {"set_title", "set_both_title"}) =>
                (win'.title = win.title /\ real'.title = real.title)
          /\ (Differs.transformation /\ op'.name # "transform") =>
                (win'.transformation = win.transformation
                   /\ real'.transformation = real.transformation)
          /\ (Differs.desktop /\ op'.name \notin {"set_desktop", "activate"}) =>
                (win'.desktop = win.desktop /\ real'.desktop = real.desktop)]_vars
    /\ [](op.name \notin FreeOps => ret.kind \in {"none", "unit"})

\* C6 witness: set_desktop left the requested desktop in the local field
\* while the real window stayed where it was, and a later operation on the
\* Window has returned with the difference still there.
C6_Witness ==
    /\ Returned /\ op.name = "raise"
    /\ Differs.desktop
    /\ Differs.title

\* C7: list_windows() runs the tool with -l alone and
\* show_information_about_wm() with -m alone; each returns the raw output
\* of the subprocess and leaves the Window as it is.
C7_FreeFunctions ==
    /\ []((op.name \in FreeOps /\ cmds # <<>>) =>
            /\ Len(cmds) = 1
            /\ cmds[1].line =
                  <<"wmctrl", " ", IF op.name = "list_windows" THEN "-l" ELSE "-m">>
            /\ sh_parse(cmds[1].line).commands =
                  << << <<"wmctrl">>,
                        <<IF op.name = "list_windows" THEN "-l" ELSE "-m">> >> >>
            /\ Returned => ret = [kind |-> "output",
                                  status |-> cmds[1].output.status,
                                  stdout |-> cmds[1].output.stdout])
    /\ [][op'.name \in FreeOps => (win' = win /\ moved' = moved)]_vars

\* C7 witness: show_information_about_wm() has returned the output of a
\* run that ended with status 1.
C7_Witness ==
    /\ Returned /\ op.name = "show_information_about_wm"
    /\ ret.status = 1
    /\ ret.stdout = <<"wminfo">>

\* C8: close() consumes the Window: once it has been called, no operation
\* is invoked through the value again, so -c is the last command issued
\* for the window.
C8_CloseIsLast ==
    /\ [](op.name = "close" =>
            (moved /\ Len(cmds) = 1 /\ cmds[1].line = OfWindow("-c")))
    /\ [][moved =>
            /\ moved'
            /\ \/ op' = op /\ Len(cmds') = Len(cmds)
               \/ op'.name \in FreeOps]_vars

\* C8 witness: after close() a free function has been called; the Window
\* stays consumed.
C8_Witness ==
    /\ moved
    /\ Returned /\ op.name = "list_windows"
====
